---- MODULE Spec2Model ----
(***************************************************************************)
(* Model of the Scanner core of sinhariti/gitissue:                        *)
(*   src/generator/scanner.py     Scanner (tree walk, detectors, policy)   *)
(*   src/generator/ai_scanner.py  AIScanner (external review adapter)      *)
(***************************************************************************)
EXTENDS Integers, Sequences, FiniteSets, TLC

VARIABLES
    walk,                   \* what os.walk(root_path) yields: <<[parts, files]>>
    content,                \* the file system: path -> file
    enable_ai,              \* Scanner.enable_ai
    ai_api_key,             \* the credential handed to Scanner.__init__
    ai_scanner,             \* Scanner.ai_scanner is not None
    todos,                  \* Scanner.todos
    missing_tests,          \* Scanner.missing_tests
    complex_files,          \* Scanner.complex_files
    undocumented_functions, \* Scanner.undocumented_functions
    security_issues,        \* Scanner.security_issues
    ai_issues,              \* Scanner.ai_issues
    pc,                     \* position of the scanning thread
    di,                     \* index of the directory os.walk is at
    stage,                  \* which of scan()'s two loops over `files` runs
    fi,                     \* index into `files` of that loop
    pending,                \* arguments of the _scan_with_ai call in progress
    issues,                 \* what analyze_file returned last (_scan_with_ai's local)
    now,                    \* the clock, in time units
    delay,                  \* time slept since the last external invocation
    inflight,               \* external model calls in progress
    requests,               \* external model invocations made, in order
    scanned,                \* files _scan_file read to the end, in order
    checked,                \* files handed to _check_missing_test, in order
    answers,                \* what each external call did and analyze_file returned
    decisions,              \* calls of _is_candidate_for_ai: arguments and result
    order                   \* every append to the report, in order: [file, kind]

report == <<todos, missing_tests, complex_files, undocumented_functions,
            security_issues, ai_issues>>
env == <<walk, content, enable_ai, ai_api_key, ai_scanner>>
pos == <<pc, di, stage, fi>>
ai == <<pending, issues, now, delay, inflight, requests>>
hist == <<scanned, checked, answers, decisions, order>>
vars == <<env, report, pos, ai, hist>>

----------------------------------------------------------------------------
(* Bounds of the model                                                     *)

MaxDeep == 2        \* how many deeply indented lines a generated file holds
MaxIssues == 2      \* how many issue objects a model response array holds

----------------------------------------------------------------------------
(* Strings and paths                                                       *)

Min(a, b) == IF a < b THEN a ELSE b

StartsWith(s, p) == Len(p) <= Len(s) /\ SubSeq(s, 1, Len(p)) = p

EndsWith(s, p) == Len(p) <= Len(s) /\ SubSeq(s, Len(s) - Len(p) + 1, Len(s)) = p

\* Python's `p in s` on strings
Contains(s, p) ==
    \E i \in 1..(Len(s) - Len(p) + 1) : SubSeq(s, i, i + Len(p) - 1) = p

\* os.path.join(a, b) for a relative b
PathJoin(a, b) == a \o "/" \o b

RECURSIVE JoinWith(_, _)
\* sep.join(seq)
JoinWith(seq, sep) ==
    IF seq = <<>> THEN ""
    ELSE IF Len(seq) = 1 THEN seq[1]
    ELSE seq[1] \o sep \o JoinWith(Tail(seq), sep)

\* os.path.splitext(file)[0]
SplitextBase(file) ==
    LET dots == {i \in 2..Len(file) : SubSeq(file, i, i) = "."}
        last == CHOOSE i \in dots : \A j \in dots : j <= i
    IN  IF dots = {} THEN file ELSE SubSeq(file, 1, last - 1)

Indices(n) == [i \in 1..n |-> i]

----------------------------------------------------------------------------
(* Source lines.  A line is [indent, kind, arg]: the width of its leading  *)
(* whitespace, what the rest of the line is, and the text a detector       *)
(* captures from it (the text after TODO, the name after `def `).          *)

Line(indent, kind, arg) == [indent |-> indent, kind |-> kind, arg |-> arg]

PlainLine == Line(4, "code", "")

\* a file: whether it can be opened and decoded, its number of lines, and
\* the lines that are not PlainLine
File(total, special) == [status |-> "ok", total |-> total, special |-> special]

BinaryFile == [status |-> "binary", total |-> 40, special |-> <<>>]

UnreadableFile == [status |-> "unreadable", total |-> 40, special |-> <<>>]

LineAt(f, i) == IF i \in DOMAIN f.special THEN f.special[i] ELSE PlainLine

----------------------------------------------------------------------------
(* Constants of the program                                                *)

MAX_SCAN_LINES == 1000

RATE_LIMIT_SLEEP == 4

LONG_FILE_LINES == 300

NESTING_THRESHOLD == 20

AI_COMPLEXITY_LINES == 200

BEGINNER_TEST_LINES == 100

root_path == "repo"

SCAN_EXTENSIONS == <<".py", ".js", ".ts", ".jsx", ".tsx", ".java", ".cpp", ".c", ".h">>

beginner_keywords == <<"easy", "beginner", "good first issue", "simple", "cleanup", "doc">>

\* the patterns dict of _check_security_patterns, in insertion order; `kinds`
\* are the line kinds the regular expression finds a match in
patterns == <<
    [name |-> "eval_usage", pattern |-> "eval\\s*\\(", kinds |-> {"eval"}],
    [name |-> "subprocess_shell", pattern |-> "subprocess\\..*shell=True",
     kinds |-> {"shell"}],
    [name |-> "hardcoded_password",
     pattern |-> "(password|secret|key)\\s*=\\s*['\"][^'\"]+['\"]",
     kinds |-> {"password"}],
    [name |-> "noqa_blind", pattern |-> "#\\s*noqa(?!\\s*:)", kinds |-> {"noqa"}] >>

----------------------------------------------------------------------------
(* The trees and files a scan is run on                                    *)

DeepLine == Line(24, "code", "")

EvalLine == Line(4, "eval", "")

TodoFiles == {
    File(50, (1 :> Line(0, "todo_hash", "easy cleanup"))
             @@ (50 :> Line(8, "todo_slash", "fix the parser"))),
    File(1001, (1000 :> Line(0, "todo_hash", "update doc"))
               @@ (1001 :> Line(0, "todo_hash", "never read"))) }

DeepFiles ==
    {File(50, [i \in 1..k |-> DeepLine]) : k \in 1..MaxDeep}
    \cup { File(50, (2 :> Line(20, "code", ""))),
           File(50, (2 :> Line(21, "code", ""))),
           File(50, (3 :> Line(24, "comment", ""))),
           File(50, (3 :> Line(24, "blank", ""))),
           File(50, (1 :> Line(40, "code", "")) @@ (2 :> Line(24, "code", ""))),
           File(1001, (1001 :> DeepLine)) }

SecurityFiles == {
    File(50, (7 :> EvalLine)),
    File(250, (3 :> Line(4, "shell", "")) @@ (9 :> Line(0, "password", ""))),
    File(50, (1 :> DeepLine) @@ (2 :> Line(4, "noqa", "")) @@ (5 :> EvalLine)),
    File(1001, (1001 :> EvalLine)) }

DocFiles == {
    File(50, (1 :> Line(0, "def", "run")) @@ (2 :> Line(0, "blank", ""))
             @@ (3 :> Line(4, "docstring", ""))),
    File(50, (1 :> Line(0, "def", "run")) @@ (3 :> Line(4, "docstring", ""))),
    File(50, (1 :> Line(0, "def", "_helper"))),
    File(50, (50 :> Line(4, "def", "last"))) }

LengthFiles ==
    {File(n, <<>>) : n \in {0, BEGINNER_TEST_LINES - 1, BEGINNER_TEST_LINES,
                            AI_COMPLEXITY_LINES, AI_COMPLEXITY_LINES + 1,
                            LONG_FILE_LINES, LONG_FILE_LINES + 1,
                            MAX_SCAN_LINES, MAX_SCAN_LINES + 1}}

\* what repo/src/util.py may be
UtilFiles ==
    LengthFiles \cup TodoFiles \cup DeepFiles \cup SecurityFiles \cup DocFiles
    \cup {BinaryFile, UnreadableFile}

\* what repo/app.py may be
AppFiles == {File(120, <<>>), File(350, (7 :> EvalLine)), BinaryFile}

TestFile == File(20, (1 :> Line(0, "def", "test_it")))

VendoredFile == File(400, (1 :> EvalLine) @@ (2 :> Line(0, "todo_hash", "easy")))

ViewFile == File(30, (2 :> Line(4, "todo_slash", "tidy up")))

\* where the tests of app.py and util.py are
Layouts == {"none", "sibling_prefix", "sibling_suffix", "tests_prefix",
            "tests_suffix", "nested_tests"}

\* os.walk(root_path), top-down: one entry per directory
Tree(layout) == <<
    [parts |-> <<"repo">>, files |-> <<"app.py", "view.js", "notes.txt">>],
    [parts |-> <<"repo", ".git">>, files |-> <<"hook.py">>],
    [parts |-> <<"repo", ".git", "hooks">>, files |-> <<"pre.py">>],
    [parts |-> <<"repo", ".github">>, files |-> <<"ci.py">>],
    [parts |-> <<"repo", "tests">>,
     files |-> IF layout = "tests_prefix" THEN <<"test_app.py", "test_util.py">>
               ELSE IF layout = "tests_suffix" THEN <<"util_test.py">>
               ELSE <<>>],
    [parts |-> <<"repo", "venv">>, files |-> <<>>],
    [parts |-> <<"repo", "venv", "lib">>, files |-> <<"mod.py">>],
    [parts |-> <<"repo", "src">>,
     files |-> (IF layout = "sibling_prefix" THEN <<"test_util.py">> ELSE <<>>)
               \o <<"util.py">>
               \o (IF layout = "sibling_suffix" THEN <<"util_test.py">> ELSE <<>>)],
    [parts |-> <<"repo", "src", "__pycache__">>, files |-> <<"gen.py">>],
    [parts |-> <<"repo", "src", "tests">>,
     files |-> IF layout = "nested_tests" THEN <<"test_util.py">> ELSE <<>>] >>

\* the `root` os.walk yields for a directory
RootOf(d) == JoinWith(d.parts, "/")

PathsOf(w) ==
    UNION {{PathJoin(RootOf(w[k]), w[k].files[j]) : j \in 1..Len(w[k].files)} :
           k \in 1..Len(w)}

FixedContent(path) ==
    IF EndsWith(path, "/view.js") THEN ViewFile
    ELSE IF EndsWith(path, "/notes.txt") THEN File(5, <<>>)
    ELSE IF \E n \in {"/hook.py", "/pre.py", "/ci.py", "/gen.py", "/mod.py"} :
                EndsWith(path, n) THEN VendoredFile
    ELSE TestFile

FileSystem(layout, app, util) ==
    [p \in PathsOf(Tree(layout)) |->
        IF p = "repo/app.py" THEN app
        ELSE IF p = "repo/src/util.py" THEN util
        ELSE FixedContent(p)]

----------------------------------------------------------------------------
(* Reading a file: _scan_file's loop over the lines                        *)

\* a count that stops with the window
TotalLinesOfWindow(f) == Min(f.total, MAX_SCAN_LINES)

\* total_lines after the read loop: every line is counted
TotalLines(f) == f.total

\* a window one line too long (`<=` for `<`)
LinesToScanOneMore(f) == [i \in 1..Min(f.total, MAX_SCAN_LINES + 1) |-> LineAt(f, i)]

\* lines_to_scan after the read loop: the first MAX_SCAN_LINES lines
LinesToScan(f) == [i \in 1..Min(f.total, MAX_SCAN_LINES) |-> LineAt(f, i)]

----------------------------------------------------------------------------
(* Pattern detectors: each returns the findings it appends                 *)

\* todo_pattern.search(line)
TodoMatch(line) == line.kind \in {"todo_hash", "todo_slash"}

\* any(k in content.lower() for k in beginner_keywords)
IsBeginnerTodo(text) ==
    \E k \in 1..Len(beginner_keywords) : Contains(text, beginner_keywords[k])

\* the line number _find_todos records for the line at 0-based index i
TodoLineNumber(i) == i + 1

FindTodos(file_path, lines) ==
    LET hits == SelectSeq(Indices(Len(lines)), LAMBDA n : TodoMatch(lines[n]))
    IN  [k \in 1..Len(hits) |->
            LET text == lines[hits[k]].arg
                is_beginner == IsBeginnerTodo(text)
            IN  [file |-> file_path,
                 line |-> TodoLineNumber(hits[k] - 1),
                 content |-> text,
                 difficulty |-> IF is_beginner THEN "Easy" ELSE "Unknown",
                 tags |-> IF is_beginner THEN <<"good first issue">> ELSE <<>>]]

\* the condition of _check_complexity
FileTooLong(line_count) == line_count > LONG_FILE_LINES

CheckComplexity(file_path, line_count) ==
    IF FileTooLong(line_count)
    THEN << [file |-> file_path,
             lines |-> line_count,
             reason |-> "File too long (> 300 lines)",
             difficulty |-> "Hard",
             tags |-> <<"refactor">>] >>
    ELSE <<>>

\* `not stripped or stripped.startswith('#')` of _check_nesting_depth
NestingSkips(line) == line.kind \in {"blank", "comment", "todo_hash"}

\* max_depth after the loop of _check_nesting_depth: the indent of the last
\* line that exceeds the threshold, 0 when there is none
MaxDepth(lines) ==
    LET deep == SelectSeq(Indices(Len(lines)),
                          LAMBDA n : /\ ~NestingSkips(lines[n])
                                     /\ lines[n].indent > NESTING_THRESHOLD)
    IN  IF deep = <<>> THEN 0 ELSE lines[deep[Len(deep)]].indent

\* the return value of _check_nesting_depth
NestingFound(lines) == MaxDepth(lines) > NESTING_THRESHOLD

\* a detector that reports every deep line
CheckNestingDepthPerLine(file_path, lines) ==
    LET deep == SelectSeq(Indices(Len(lines)),
                          LAMBDA n : /\ ~NestingSkips(lines[n])
                                     /\ lines[n].indent > NESTING_THRESHOLD)
    IN  [k \in 1..Len(deep) |->
            [file |-> file_path,
             lines |-> Len(lines),
             reason |-> "Deep nesting detected",
             difficulty |-> "Hard",
             tags |-> <<"refactor", "complexity">>]]

CheckNestingDepth(file_path, lines) ==
    IF NestingFound(lines)
    THEN << [file |-> file_path,
             lines |-> Len(lines),
             reason |-> "Deep nesting detected",
             difficulty |-> "Hard",
             tags |-> <<"refactor", "complexity">>] >>
    ELSE <<>>

\* re.search(pattern, content, re.IGNORECASE) on the joined window
PatternMatches(pat, lines) == \E n \in 1..Len(lines) : lines[n].kind \in pat.kinds

\* found_issues of _check_security_patterns, in the order of the dict
SecurityReasons(lines) ==
    LET hits == SelectSeq(patterns, LAMBDA pat : PatternMatches(pat, lines))
    IN  [k \in 1..Len(hits) |-> hits[k].name]

CheckSecurityPatterns(file_path, lines) ==
    LET hits == SelectSeq(patterns, LAMBDA pat : PatternMatches(pat, lines))
    IN  [k \in 1..Len(hits) |->
            [file |-> file_path,
             issue |-> "Potential security risk: " \o hits[k].name,
             pattern |-> hits[k].pattern,
             difficulty |-> "Medium",
             tags |-> <<"security", "security-audit">>]]

\* the look-ahead of _check_docs from the def at index i: the first line
\* after it that is not blank decides
FoundDoc(lines, i) ==
    LET after == {j \in (i + 1)..Len(lines) : lines[j].kind # "blank"}
        first == CHOOSE j \in after : \A m \in after : j <= m
    IN  after # {} /\ lines[first].kind = "docstring"

CheckDocs(file_path, lines) ==
    LET hits == SelectSeq(Indices(Len(lines)),
                          LAMBDA n : /\ lines[n].kind = "def"
                                     /\ ~StartsWith(lines[n].arg, "_")
                                     /\ ~FoundDoc(lines, n))
    IN  [k \in 1..Len(hits) |->
            [file |-> file_path,
             line |-> hits[k],
             function |-> lines[hits[k]].arg,
             difficulty |-> "Easy",
             tags |-> <<"good first issue", "documentation">>]]

\* the appends of a list of findings to their report sequence
Appends(findings, kind) ==
    [k \in 1..Len(findings) |-> [file |-> findings[k].file, kind |-> kind]]

\* the detectors called with the security check first
ScanFileAppendsSecurityFirst(file_path, lines, total_lines) ==
    Appends(CheckSecurityPatterns(file_path, lines), "SecurityIssue")
    \o Appends(FindTodos(file_path, lines), "Todo")
    \o Appends(CheckComplexity(file_path, total_lines), "ComplexFile")
    \o Appends(CheckNestingDepth(file_path, lines), "ComplexFile")
    \o (IF EndsWith(file_path, ".py")
        THEN Appends(CheckDocs(file_path, lines), "UndocumentedFunction")
        ELSE <<>>)

\* the appends the detectors make for one file, in the order _scan_file
\* calls them
ScanFileAppends(file_path, lines, total_lines) ==
    Appends(FindTodos(file_path, lines), "Todo")
    \o Appends(CheckComplexity(file_path, total_lines), "ComplexFile")
    \o Appends(CheckNestingDepth(file_path, lines), "ComplexFile")
    \o Appends(CheckSecurityPatterns(file_path, lines), "SecurityIssue")
    \o (IF EndsWith(file_path, ".py")
        THEN Appends(CheckDocs(file_path, lines), "UndocumentedFunction")
        ELSE <<>>)

----------------------------------------------------------------------------
(* AI candidacy policy                                                     *)

\* the policy with its two tests in the other order
IsCandidateForAiComplexityFirst(total_lines, nesting_found, security_found, security_reasons) ==
    IF nesting_found \/ total_lines > AI_COMPLEXITY_LINES
    THEN <<TRUE, "high_complexity">>
    ELSE IF security_found
    THEN <<TRUE, "security_risk: " \o JoinWith(security_reasons, ", ")>>
    ELSE <<FALSE, "">>

\* _is_candidate_for_ai: <<should_scan, reason>>
IsCandidateForAi(total_lines, nesting_found, security_found, security_reasons) ==
    IF security_found
    THEN <<TRUE, "security_risk: " \o JoinWith(security_reasons, ", ")>>
    ELSE IF nesting_found \/ total_lines > AI_COMPLEXITY_LINES
    THEN <<TRUE, "high_complexity">>
    ELSE <<FALSE, "">>

----------------------------------------------------------------------------
(* AI reviewer adapter.  A JSON value is [t, v]: t its type and v its      *)
(* value (a record for an object, a sequence for an array).  The text of a *)
(* response is a sequence of chunks: code-fence markers, prose, JSON.      *)

JNull == [t |-> "null", v |-> 0]

JNum(n) == [t |-> "num", v |-> n]

JStr(x) == [t |-> "str", v |-> x]

JObj(r) == [t |-> "obj", v |-> r]

JArr(q) == [t |-> "arr", v |-> q]

Fence == [t |-> "fence", v |-> 0]

Prose == [t |-> "prose", v |-> 0]

\* response_text.replace('```json', '').replace('```', '').strip()
CleanText(text) == SelectSeq(text, LAMBDA c : c.t # "fence")

\* json.loads(cleaned_text): the value, or a JSONDecodeError
JsonLoads(cleaned) ==
    IF Len(cleaned) = 1 /\ cleaned[1].t # "prose"
    THEN [exc |-> "", ret |-> cleaned[1]]
    ELSE [exc |-> "JSONDecodeError", ret |-> JNull]

\* what `for issue in issues` binds issue to, in order
IterItems(value) ==
    IF value.t = "arr" THEN value.v
    ELSE IF value.t = "obj"
    THEN LET keys == DOMAIN value.v
         IN  IF keys = {} THEN <<>> ELSE <<JStr(CHOOSE k \in keys : TRUE)>>
    ELSE IF value.t = "str"
    THEN IF value.v = "" THEN <<>> ELSE <<JStr(SubSeq(value.v, 1, 1))>>
    ELSE <<>>

\* the exception the loop body raises on one item, "" when it raises none
ItemError(item) ==
    IF item.t # "obj" THEN "TypeError"
    ELSE IF "type" \notin DOMAIN item.v THEN "KeyError"
    ELSE ""

\* issue['file'] = file_path; issue['tags'] = ['ai-generated', issue['type']]
TagIssue(item, file_path) ==
    JObj(("file" :> file_path) @@ ("tags" :> <<"ai-generated", item.v.type>>)
         @@ item.v)

\* _parse_response: [exc, ret], exc the exception that leaves it ("" = none)
ParseResponse(response_text, file_path) ==
    LET loaded == JsonLoads(CleanText(response_text))
        value == loaded.ret
        items == IterItems(value)
        bad == SelectSeq(items, LAMBDA it : ItemError(it) # "")
    IN  IF loaded.exc # "" THEN [exc |-> "", ret |-> JArr(<<>>)]
        ELSE IF value.t \in {"null", "num"} THEN [exc |-> "TypeError", ret |-> JNull]
        ELSE IF bad # <<>> THEN [exc |-> ItemError(bad[1]), ret |-> JNull]
        ELSE IF value.t = "arr"
        THEN [exc |-> "",
              ret |-> JArr([k \in 1..Len(items) |-> TagIssue(items[k], file_path)])]
        ELSE [exc |-> "", ret |-> value]

\* analyze_file, given what model.generate_content did: its return value
AnalyzeFile(response, file_path) ==
    IF response.status = "error" THEN JArr(<<>>)
    ELSE LET parsed == ParseResponse(response.text, file_path)
         IN  IF parsed.exc # "" THEN JArr(<<>>) ELSE parsed.ret

\* ai_issues.extend(issues): the elements appended
Extended(value) == IF value.t = "arr" THEN [k \in 1..Len(value.v) |-> value.v[k].v]
                   ELSE <<>>

\* the branch of _create_prompt the reason selects
FocusArea(reason) ==
    IF Contains(reason, "security_risk") THEN "Security Audit"
    ELSE IF Contains(reason, "complexity") THEN "Refactoring and Clean Code"
    ELSE "General Code Review"

\* what the external model may answer
Issue(n) ==
    JObj([title |-> "issue", description |-> "d", suggestion |-> "s",
          line_number |-> IF n = 1 THEN 0 ELSE IF n = 2 THEN MAX_SCAN_LINES + 500
                          ELSE 12,
          difficulty |-> "Easy", type |-> IF n = 1 THEN "security" ELSE "bug"])

Untyped == JObj([title |-> "issue", line_number |-> 3])

Ok(text) == [status |-> "ok", text |-> text]

Responses ==
    << [status |-> "error", text |-> <<>>],
       Ok(<<Prose>>),
       Ok(<<Prose, JArr(<<Issue(1)>>)>>),
       Ok(<<JNull>>),
       Ok(<<JStr("")>>),
       Ok(<<JObj(<<>>)>>),
       Ok(<<JObj([error |-> "quota"])>>),
       Ok(<<JArr(<<Untyped>>)>>),
       Ok(<<JArr(<<Issue(1), JNum(7)>>)>>),
       Ok(<<Fence, JArr(<<Issue(3)>>), Fence>>) >>
    \o [n \in 1..(MaxIssues + 1) |-> Ok(<<JArr([k \in 1..(n - 1) |-> Issue(k)])>>)]

----------------------------------------------------------------------------
(* The scan                                                                *)

\* os.path.exists(path)
Exists(path) == path \in DOMAIN content

\* a test that skips a directory by its own name only
PrunedByBaseName(root) ==
    EndsWith(root, "/.git") \/ EndsWith(root, "/__pycache__") \/ EndsWith(root, "/venv")

\* the test of scan() that skips a directory
Pruned(root) ==
    Contains(root, ".git") \/ Contains(root, "__pycache__") \/ Contains(root, "venv")

\* file.endswith(('.py', '.js', ...))
Eligible(file) == \E k \in 1..Len(SCAN_EXTENSIONS) : EndsWith(file, SCAN_EXTENSIONS[k])

\* the test of scan()'s second loop
NeedsTestCheck(file) ==
    EndsWith(file, ".py") /\ ~StartsWith(file, "test_") /\ ~EndsWith(file, "_test.py")

\* test_candidates of _check_missing_test
TestCandidates(file) ==
    LET base_name == SplitextBase(file)
    IN  <<"test_" \o base_name \o ".py", base_name \o "_test.py">>

\* has_test of _check_missing_test
HasTest(root, file) ==
    LET cands == TestCandidates(file)
        tests_path == PathJoin(root_path, "tests")
    IN  \/ \E k \in 1..Len(cands) : Exists(PathJoin(root, cands[k]))
        \/ \E k \in 1..Len(cands) : Exists(PathJoin(tests_path, cands[k]))

\* a threshold that counts a file of exactly 100 lines as small
IsBeginnerFileInclusive(line_count) == line_count <= BEGINNER_TEST_LINES

\* is_beginner of _check_missing_test
IsBeginnerFile(line_count) == line_count < BEGINNER_TEST_LINES

\* what _check_missing_test appends
CheckMissingTestFindings(root, file) ==
    LET file_path == PathJoin(root, file)
        f == content[file_path]
        line_count == f.total
        is_beginner == IsBeginnerFile(line_count)
    IN  IF f.status # "ok" THEN <<>>
        ELSE IF HasTest(root, file) THEN <<>>
        ELSE << [file |-> file_path,
                 difficulty |-> IF is_beginner THEN "Easy" ELSE "Medium",
                 tags |-> IF is_beginner THEN <<"good first issue", "testing">>
                          ELSE <<"testing">>] >>

\* Scanner.__init__: whether an AIScanner is constructed
AiScannerConstructed(en, key) == en /\ key # ""

\* a gate that looks at the flag only
UseAiFlagOnly(en, scanner) == en

\* `if self.enable_ai and self.ai_scanner` of _scan_file
UseAi(en, scanner) == en /\ scanner

NoPending == [file_path |-> "", content_lines |-> 0, reason |-> ""]

Init ==
    \E layout \in Layouts, app \in AppFiles, util \in UtilFiles,
       en \in BOOLEAN, key \in {"", "secret"} :
        /\ walk = Tree(layout)
        /\ content = FileSystem(layout, app, util)
        /\ enable_ai = en
        /\ ai_api_key = key
        /\ ai_scanner = AiScannerConstructed(en, key)
        /\ todos = <<>>
        /\ missing_tests = <<>>
        /\ complex_files = <<>>
        /\ undocumented_functions = <<>>
        /\ security_issues = <<>>
        /\ ai_issues = <<>>
        /\ pc = "walk"
        /\ di = 1
        /\ stage = "scan"
        /\ fi = 1
        /\ pending = NoPending
        /\ issues = JArr(<<>>)
        /\ now = 0
        /\ delay = 0
        /\ inflight = 0
        /\ requests = <<>>
        /\ scanned = <<>>
        /\ checked = <<>>
        /\ answers = <<>>
        /\ decisions = <<>>
        /\ order = <<>>

InDir == pc = "walk" /\ di <= Len(walk)

\* `continue` on a pruned directory
SkipDir ==
    /\ InDir /\ stage = "scan" /\ fi = 1
    /\ Pruned(RootOf(walk[di]))
    /\ di' = di + 1
    /\ UNCHANGED <<env, report, pc, stage, fi, ai, hist>>

InScanLoop == InDir /\ stage = "scan" /\ ~Pruned(RootOf(walk[di]))

\* a file of the first loop that is no source file
SkipFile ==
    /\ InScanLoop /\ fi <= Len(walk[di].files)
    /\ ~Eligible(walk[di].files[fi])
    /\ fi' = fi + 1
    /\ UNCHANGED <<env, report, pc, di, stage, ai, hist>>

\* _scan_file up to its return or to the sleep of _scan_with_ai
ScanFile ==
    /\ InScanLoop /\ fi <= Len(walk[di].files)
    /\ Eligible(walk[di].files[fi])
    /\ LET file_path == PathJoin(RootOf(walk[di]), walk[di].files[fi])
           f == content[file_path]
           lines_to_scan == LinesToScan(f)
           total_lines == TotalLines(f)
           nesting_found == NestingFound(lines_to_scan)
           security_reasons == SecurityReasons(lines_to_scan)
           security_found == Len(security_reasons) > 0
           use_ai == UseAi(enable_ai, ai_scanner)
           cand == IsCandidateForAi(total_lines, nesting_found, security_found,
                                    security_reasons)
       IN  IF f.status = "unreadable"
           THEN \* open() raises OSError, which _scan_file does not catch
                /\ pc' = "crashed"
                /\ UNCHANGED <<env, report, di, stage, fi, ai, hist>>
           ELSE IF f.status = "binary"
           THEN \* UnicodeDecodeError in the read loop: pass
                /\ fi' = fi + 1
                /\ UNCHANGED <<env, report, pc, di, stage, ai, hist>>
           ELSE /\ todos' = todos \o FindTodos(file_path, lines_to_scan)
                /\ complex_files' = complex_files
                        \o CheckComplexity(file_path, total_lines)
                        \o CheckNestingDepth(file_path, lines_to_scan)
                /\ security_issues' = security_issues
                        \o CheckSecurityPatterns(file_path, lines_to_scan)
                /\ undocumented_functions' =
                        IF EndsWith(file_path, ".py")
                        THEN undocumented_functions \o CheckDocs(file_path, lines_to_scan)
                        ELSE undocumented_functions
                /\ scanned' = Append(scanned, file_path)
                /\ order' = order \o ScanFileAppends(file_path, lines_to_scan, total_lines)
                /\ decisions' =
                        IF use_ai
                        THEN Append(decisions,
                                    [file_path |-> file_path,
                                     total_lines |-> total_lines,
                                     nesting_found |-> nesting_found,
                                     security_found |-> security_found,
                                     security_reasons |-> security_reasons,
                                     should_scan |-> cand[1],
                                     reason |-> cand[2]])
                        ELSE decisions
                /\ IF use_ai /\ cand[1]
                   THEN /\ pc' = "sleep"
                        /\ pending' = [file_path |-> file_path,
                                       content_lines |-> Len(lines_to_scan),
                                       reason |-> cand[2]]
                        /\ fi' = fi
                   ELSE /\ fi' = fi + 1
                        /\ UNCHANGED <<pc, pending>>
                /\ UNCHANGED <<env, missing_tests, ai_issues, di, stage, issues,
                               now, delay, inflight, requests, checked, answers>>

\* a throttle that sleeps before the first call of a scan only
SleepBeforeFirstCallOnly ==
    /\ pc = "sleep"
    /\ now' = IF requests = <<>> THEN now + RATE_LIMIT_SLEEP ELSE now
    /\ delay' = IF requests = <<>> THEN delay + RATE_LIMIT_SLEEP ELSE delay
    /\ pc' = "call"
    /\ UNCHANGED <<env, report, di, stage, fi, pending, issues, inflight, requests,
                   hist>>

\* time.sleep(4) of _scan_with_ai
Sleep ==
    /\ pc = "sleep"
    /\ now' = now + RATE_LIMIT_SLEEP
    /\ delay' = delay + RATE_LIMIT_SLEEP
    /\ pc' = "call"
    /\ UNCHANGED <<env, report, di, stage, fi, pending, issues, inflight, requests,
                   hist>>

\* analyze_file builds the prompt and calls model.generate_content
Invoke ==
    /\ pc = "call"
    /\ requests' = Append(requests,
                          [file_path |-> pending.file_path,
                           reason |-> pending.reason,
                           focus |-> FocusArea(pending.reason),
                           at |-> now,
                           delay |-> delay])
    /\ delay' = 0
    /\ inflight' = inflight + 1
    /\ pc' = "wait"
    /\ UNCHANGED <<env, report, di, stage, fi, pending, issues, now, hist>>

\* generate_content returns or raises; analyze_file returns; ai_issues.extend
Return ==
    /\ pc = "wait"
    /\ \E k \in 1..Len(Responses) :
        LET ret == AnalyzeFile(Responses[k], pending.file_path)
        IN  /\ issues' = ret
            /\ ai_issues' = ai_issues \o Extended(ret)
            /\ order' = order \o Appends(Extended(ret), "AiIssue")
            /\ answers' = Append(answers, [file_path |-> pending.file_path,
                                           response |-> Responses[k],
                                           returned |-> ret,
                                           appended |-> Len(Extended(ret))])
    /\ inflight' = inflight - 1
    /\ pending' = NoPending
    /\ pc' = "walk"
    /\ fi' = fi + 1
    /\ UNCHANGED <<env, todos, missing_tests, complex_files, undocumented_functions,
                   security_issues, di, stage, now, delay, requests, scanned,
                   checked, decisions>>

\* the first loop over `files` ends, the second begins
EndScanLoop ==
    /\ InScanLoop /\ fi > Len(walk[di].files)
    /\ stage' = "tests"
    /\ fi' = 1
    /\ UNCHANGED <<env, report, pc, di, ai, hist>>

InTestLoop == InDir /\ stage = "tests"

\* a file of the second loop that is no Python source or is a test
SkipTestCheck ==
    /\ InTestLoop /\ fi <= Len(walk[di].files)
    /\ ~NeedsTestCheck(walk[di].files[fi])
    /\ fi' = fi + 1
    /\ UNCHANGED <<env, report, pc, di, stage, ai, hist>>

\* _check_missing_test
CheckMissingTest ==
    /\ InTestLoop /\ fi <= Len(walk[di].files)
    /\ NeedsTestCheck(walk[di].files[fi])
    /\ missing_tests' = missing_tests
            \o CheckMissingTestFindings(RootOf(walk[di]), walk[di].files[fi])
    /\ checked' = Append(checked, PathJoin(RootOf(walk[di]), walk[di].files[fi]))
    /\ order' = order \o Appends(CheckMissingTestFindings(RootOf(walk[di]),
                                                          walk[di].files[fi]),
                                 "MissingTest")
    /\ fi' = fi + 1
    /\ UNCHANGED <<env, todos, complex_files, undocumented_functions,
                   security_issues, ai_issues, pc, di, stage, ai, scanned, answers,
                   decisions>>

\* os.walk moves to the next directory
NextDir ==
    /\ InTestLoop /\ fi > Len(walk[di].files)
    /\ di' = di + 1
    /\ stage' = "scan"
    /\ fi' = 1
    /\ UNCHANGED <<env, report, pc, ai, hist>>

\* os.walk is exhausted: scan() returns
Finish ==
    /\ pc = "walk" /\ di > Len(walk)
    /\ pc' = "done"
    /\ UNCHANGED <<env, report, di, stage, fi, ai, hist>>

Next ==
    \/ SkipDir
    \/ SkipFile
    \/ ScanFile
    \/ Sleep
    \/ Invoke
    \/ Return
    \/ EndScanLoop
    \/ SkipTestCheck
    \/ CheckMissingTest
    \/ NextDir
    \/ Finish

Spec == Init /\ [][Next]_vars

----------------------------------------------------------------------------
(* What the files scanned really hold, read off the files themselves       *)

\* the lines of f other than PlainLine
SpecialLines(f) == {i \in DOMAIN f.special : i <= f.total}

\* those of them among the first 1000 lines
WindowLines(f) == {i \in SpecialLines(f) : i <= 1000}

\* the findings of a report sequence that refer to a file
FindingsOf(seq, path) == SelectSeq(seq, LAMBDA x : x.file = path)

InSeq(seq, x) == \E k \in 1..Len(seq) : seq[k] = x

\* the names of the security patterns with a match in the first 1000 lines
MatchedPatternNames(f) ==
    {patterns[k].name : k \in
        {n \in 1..Len(patterns) :
            \E i \in WindowLines(f) : f.special[i].kind \in patterns[n].kinds}}

\* the pattern names of the SecurityIssue findings recorded for a file
RecordedPatternNames(path) ==
    LET found == FindingsOf(security_issues, path)
        prefix == "Potential security risk: "
    IN  [k \in 1..Len(found) |->
            SubSeq(found[k].issue, Len(prefix) + 1, Len(found[k].issue))]

\* a "Deep nesting detected" finding was recorded for a file
NestingRecorded(path) ==
    \E k \in 1..Len(complex_files) :
        /\ complex_files[k].file = path
        /\ complex_files[k].reason = "Deep nesting detected"

----------------------------------------------------------------------------
(* Claims                                                                  *)

\* C1: every candidacy decision follows the priority order: a file with a
\* security match is a candidate with reason "security_risk: " and exactly
\* the pattern names of its SecurityIssue findings, whatever its nesting and
\* length; else a file with nesting found or more than 200 lines is a
\* candidate with reason "high_complexity"; else it is no candidate.
C1_CandidacyPolicy ==
    \A k \in 1..Len(decisions) :
        LET d == decisions[k]
            f == content[d.file_path]
            names == RecordedPatternNames(d.file_path)
        IN  /\ {names[j] : j \in 1..Len(names)} = MatchedPatternNames(f)
            /\ Len(names) = Cardinality(MatchedPatternNames(f))
            /\ IF names # <<>>
               THEN /\ d.should_scan
                    /\ d.reason = "security_risk: " \o JoinWith(names, ", ")
                    /\ d.reason # "high_complexity"
               ELSE IF NestingRecorded(d.file_path) \/ f.total > 200
               THEN d.should_scan /\ d.reason = "high_complexity"
               ELSE ~d.should_scan

\* a file of 250 lines with two security matches has been decided on
C1_Witness ==
    \E k \in 1..Len(decisions) :
        /\ content[decisions[k].file_path].total = 250
        /\ decisions[k].should_scan
        /\ decisions[k].reason = "security_risk: subprocess_shell, hardcoded_password"

\* the outcome of an external call is a failure, or its text is not a JSON
\* array of issue objects
Malformed(response) ==
    \/ response.status = "error"
    \/ LET chunks == SelectSeq(response.text, LAMBDA c : c.t # "fence")
       IN  ~ /\ Len(chunks) = 1
             /\ chunks[1].t = "arr"
             /\ \A k \in 1..Len(chunks[1].v) :
                    /\ chunks[1].v[k].t = "obj"
                    /\ "type" \in DOMAIN chunks[1].v[k].v

\* C2: whenever the external call fails or its response is malformed,
\* analyze_file returns an empty list and no AiIssue is appended for the file.
C2_FailureYieldsEmptyList ==
    \A k \in 1..Len(answers) :
        Malformed(answers[k].response) =>
            /\ answers[k].returned = JArr(<<>>)
            /\ answers[k].appended = 0

\* every finding of the six report sequences that refers to a file
AllFindingsOf(path) ==
    Len(FindingsOf(todos, path)) + Len(FindingsOf(missing_tests, path))
    + Len(FindingsOf(complex_files, path))
    + Len(FindingsOf(undocumented_functions, path))
    + Len(FindingsOf(security_issues, path)) + Len(FindingsOf(ai_issues, path))

\* the files of the tree with a source extension outside the skipped directories
WalkedSourceFiles ==
    UNION {{PathJoin(RootOf(walk[k]), walk[k].files[j]) :
                j \in {n \in 1..Len(walk[k].files) : Eligible(walk[k].files[n])}} :
           k \in {n \in 1..Len(walk) : ~Pruned(RootOf(walk[n]))}}

\* C3: a file whose read or decode fails is silently skipped: the scan is
\* never halted, the file has no finding in any of the six sequences, and
\* every other eligible file of the tree is scanned.
C3_UnreadableOrBinarySkipped ==
    /\ pc # "crashed"
    /\ \A path \in DOMAIN content :
            content[path].status # "ok" => AllFindingsOf(path) = 0
    /\ pc = "done" =>
            \A path \in WalkedSourceFiles :
                content[path].status = "ok" => InSeq(scanned, path)

\* C4: every external invocation is made right after its own sleep of 4 time
\* units, so consecutive invocations (and the first one and the start of the
\* scan) are at least 4 units apart; at most one call is in progress, and
\* while one is, no detector runs and no file is read.
C4_RateLimitSequencing ==
    /\ [](inflight <= 1)
    /\ [](\A k \in 1..Len(requests) :
            /\ requests[k].delay = 4
            /\ requests[k].at - (IF k = 1 THEN 0 ELSE requests[k - 1].at) >= 4)
    /\ [][inflight' > inflight => (pc = "call" /\ delay = 4 /\ inflight = 0)]_vars
    /\ [][pc' = "call" => (pc = "sleep" /\ now' = now + 4 /\ delay' = 4)]_vars
    /\ [][inflight > 0 =>
            UNCHANGED <<todos, missing_tests, complex_files, undocumented_functions,
                        security_issues, scanned, checked, decisions, requests>>]_vars

\* a second invocation has been made in one scan, after a second sleep
C4_Witness ==
    /\ Len(requests) = 2
    /\ requests[2].delay = 4
    /\ requests[2].at = 8
    /\ inflight = 1

\* how many external requests were made for a file
RequestsFor(path) ==
    Cardinality({k \in 1..Len(requests) : requests[k].file_path = path})

\* one of the first 1000 lines is indented by more than 20 columns and is
\* neither blank nor a # comment
DeepInWindow(f) ==
    \E i \in WindowLines(f) :
        /\ f.special[i].indent > 20
        /\ f.special[i].kind \notin {"blank", "comment", "todo_hash"}

\* the candidacy policy accepts the file
PolicyAccepts(f) == MatchedPatternNames(f) # {} \/ DeepInWindow(f) \/ f.total > 200

\* C5: with AI enabled and a credential, each scanned file the policy accepts
\* gets exactly one external request (made as soon as its sleep is over) and
\* each file it rejects gets none; with AI disabled or no credential, no
\* request is ever made and the AiIssue sequence stays empty.
C5_AiGating ==
    /\ \A path \in DOMAIN content :
            /\ RequestsFor(path) <= 1
            /\ RequestsFor(path) = 1 => InSeq(scanned, path)
    /\ (enable_ai /\ ai_api_key # "") =>
            \A k \in 1..Len(scanned) :
                IF PolicyAccepts(content[scanned[k]])
                THEN \/ RequestsFor(scanned[k]) = 1
                     \/ pending.file_path = scanned[k] /\ pc \in {"sleep", "call"}
                ELSE RequestsFor(scanned[k]) = 0
    /\ ~(enable_ai /\ ai_api_key # "") => requests = <<>> /\ ai_issues = <<>>

\* a scan with AI enabled and a credential has completed, with a request for
\* one scanned file and none for another
C5_Witness ==
    /\ pc = "done"
    /\ enable_ai /\ ai_api_key # ""
    /\ \E k \in 1..Len(scanned) : RequestsFor(scanned[k]) = 1
    /\ \E k \in 1..Len(scanned) : RequestsFor(scanned[k]) = 0

\* the files in or below a directory named .git, __pycache__ or venv
UnderPrunedDir ==
    UNION {{PathJoin(RootOf(walk[k]), walk[k].files[j]) : j \in 1..Len(walk[k].files)} :
           k \in {n \in 1..Len(walk) :
                    \E m \in 2..Len(walk[n].parts) :
                        walk[n].parts[m] \in {".git", "__pycache__", "venv"}}}

\* C6: no file in or below a directory named .git, __pycache__ or venv is
\* passed to the detectors, to the missing-test check or to the external
\* model, and no finding of the report refers to one.
C6_Pruning ==
    \A path \in UnderPrunedDir :
        /\ ~InSeq(scanned, path)
        /\ ~InSeq(checked, path)
        /\ RequestsFor(path) = 0
        /\ AllFindingsOf(path) = 0

\* the scan has completed on a tree with files below such directories, and
\* has scanned and checked other files
C6_Witness ==
    /\ pc = "done"
    /\ Cardinality(UnderPrunedDir) >= 4
    /\ Len(scanned) >= 3
    /\ Len(checked) >= 2

\* n is a 1-based line number within the first 1000 lines of the file
LineWithinWindow(path, n) == 1 <= n /\ n <= 1000 /\ n <= content[path].total

\* files of fewer than 1000 lines are scanned in full: each of their TODO
\* lines has its finding
ShortFilesScannedInFull ==
    \A k \in 1..Len(scanned) :
        LET f == content[scanned[k]]
        IN  f.total < 1000 =>
                \A i \in SpecialLines(f) :
                    f.special[i].kind \in {"todo_hash", "todo_slash"} =>
                        \E t \in 1..Len(todos) :
                            todos[t].file = scanned[k] /\ todos[t].line = i

\* C7 as stated: the line number of every Todo, UndocumentedFunction and
\* AiIssue finding lies between 1 and min(1000, the file's line count), and
\* files of fewer than 1000 lines are scanned in full.
C7_AllLineNumbersWithinWindow ==
    /\ \A k \in 1..Len(todos) : LineWithinWindow(todos[k].file, todos[k].line)
    /\ \A k \in 1..Len(undocumented_functions) :
            LineWithinWindow(undocumented_functions[k].file,
                             undocumented_functions[k].line)
    /\ \A k \in 1..Len(ai_issues) :
            LineWithinWindow(ai_issues[k].file, ai_issues[k].line_number)
    /\ ShortFilesScannedInFull

\* C7 amended: the line number of every Todo and UndocumentedFunction
\* finding lies between 1 and min(1000, the file's line count) and is the
\* number of the TODO or def line it reports; files of fewer than 1000 lines
\* are scanned in full.  (An AiIssue carries the number the model returned.)
C7_HeuristicLineNumbersWithinWindow ==
    /\ \A k \in 1..Len(todos) :
            /\ LineWithinWindow(todos[k].file, todos[k].line)
            /\ LineAt(content[todos[k].file], todos[k].line).kind
                    \in {"todo_hash", "todo_slash"}
    /\ \A k \in 1..Len(undocumented_functions) :
            /\ LineWithinWindow(undocumented_functions[k].file,
                                undocumented_functions[k].line)
            /\ LineAt(content[undocumented_functions[k].file],
                      undocumented_functions[k].line).kind = "def"
    /\ ShortFilesScannedInFull

\* a TODO on line 1000 of a file of 1001 lines has been reported, and the
\* TODO on line 1001 has not
C7_Witness ==
    \E k \in 1..Len(todos) :
        /\ todos[k].line = 1000
        /\ content[todos[k].file].total = 1001
        /\ InSeq(scanned, todos[k].file)
        /\ Len(FindingsOf(todos, todos[k].file)) = 1

\* the Python sources of the tree that are no test files: <<directory, file>>
PySources ==
    {e \in UNION {{<<k, j>> : j \in 1..Len(walk[k].files)} : k \in 1..Len(walk)} :
        LET file == walk[e[1]].files[e[2]]
        IN  /\ EndsWith(file, ".py")
            /\ ~StartsWith(file, "test_")
            /\ ~EndsWith(file, "_test.py")}

PathOfEntry(e) == PathJoin(RootOf(walk[e[1]]), walk[e[1]].files[e[2]])

\* neither test_<base>.py nor <base>_test.py exists alongside the file or in
\* the tests directory of the scan root
NoTestExists(e) ==
    LET file == walk[e[1]].files[e[2]]
        base == SubSeq(file, 1, Len(file) - 3)
    IN  \A dir \in {RootOf(walk[e[1]]), "repo/tests"} :
            \A name \in {"test_" \o base \o ".py", base \o "_test.py"} :
                (dir \o "/" \o name) \notin DOMAIN content

\* the MissingTest findings of a file are exactly one, of the difficulty and
\* tags its true line count asks for
OneMissingTest(path) ==
    LET found == FindingsOf(missing_tests, path)
    IN  /\ Len(found) = 1
        /\ IF content[path].total < 100
           THEN /\ found[1].difficulty = "Easy"
                /\ InSeq(found[1].tags, "good first issue")
           ELSE /\ found[1].difficulty = "Medium"
                /\ found[1].tags = <<"testing">>

\* C8 as stated: when the scan has completed, every Python source that is no
\* test file has exactly one MissingTest finding (Easy below 100 lines, else
\* Medium) if none of its candidate test files exists, and none otherwise.
C8_MissingTestForEverySource ==
    pc = "done" =>
        \A e \in PySources :
            IF NoTestExists(e) THEN OneMissingTest(PathOfEntry(e))
            ELSE Len(FindingsOf(missing_tests, PathOfEntry(e))) = 0

\* the path of the directory contains .git, __pycache__ or venv
InSkippedDir(e) ==
    \E name \in {".git", "__pycache__", "venv"} : Contains(RootOf(walk[e[1]]), name)

\* C8 amended: the same, for the Python sources that can be read and decoded
\* and lie in a directory whose path contains none of .git, __pycache__ and
\* venv; the other ones get no MissingTest finding.
C8_MissingTestForCheckedSource ==
    \A e \in PySources :
        LET path == PathOfEntry(e)
        IN  /\ IF InSeq(checked, path) /\ content[path].status = "ok" /\ NoTestExists(e)
               THEN OneMissingTest(path)
               ELSE Len(FindingsOf(missing_tests, path)) = 0
            /\ InSeq(checked, path) => ~InSkippedDir(e)
            /\ pc = "done" /\ ~InSkippedDir(e) => InSeq(checked, path)

\* a scan has completed with an Easy finding for a file of 99 lines and a
\* Medium one for a longer file
C8_Witness ==
    /\ pc = "done"
    /\ \E k \in 1..Len(missing_tests) :
            /\ content[missing_tests[k].file].total = 99
            /\ missing_tests[k].difficulty = "Easy"
    /\ \E k \in 1..Len(missing_tests) :
            /\ content[missing_tests[k].file].total >= 100
            /\ missing_tests[k].tags = <<"testing">>

\* the "Deep nesting detected" findings of a file
DeepFindings(path) ==
    SelectSeq(complex_files,
              LAMBDA x : x.file = path /\ x.reason = "Deep nesting detected")

\* the nesting-found signal every candidacy decision on the file was given
NestingSignal(path, value) ==
    \A k \in 1..Len(decisions) :
        decisions[k].file_path = path => decisions[k].nesting_found = value

\* C9 as stated: a scanned file with a line indented by more than 20 columns
\* has exactly one "Deep nesting detected" finding and a true signal; a file
\* with no such line has no such finding and a false signal.
C9_AnyDeepLineYieldsOneFinding ==
    \A k \in 1..Len(scanned) :
        LET f == content[scanned[k]]
            deep == \E i \in SpecialLines(f) : f.special[i].indent > 20
        IN  /\ Len(DeepFindings(scanned[k])) = IF deep THEN 1 ELSE 0
            /\ NestingSignal(scanned[k], deep)

\* C9 amended: the same, for a line that is among the first 1000 lines and is
\* neither blank nor a # comment.
C9_DeepCodeLineYieldsOneFinding ==
    \A k \in 1..Len(scanned) :
        LET f == content[scanned[k]]
        IN  /\ Len(DeepFindings(scanned[k])) = IF DeepInWindow(f) THEN 1 ELSE 0
            /\ NestingSignal(scanned[k], DeepInWindow(f))

\* a file with several deep lines has been scanned, has one finding, and the
\* policy was given a true signal
C9_Witness ==
    \E k \in 1..Len(scanned) :
        /\ Cardinality({i \in WindowLines(content[scanned[k]]) :
                            content[scanned[k]].special[i].indent > 20}) >= 2
        /\ Len(DeepFindings(scanned[k])) = 1
        /\ \E d \in 1..Len(decisions) :
                decisions[d].file_path = scanned[k] /\ decisions[d].nesting_found

\* the "File too long" findings of a file
LongFindings(path) ==
    SelectSeq(complex_files,
              LAMBDA x : x.file = path /\ x.reason = "File too long (> 300 lines)")

\* C10: a scanned file has a "File too long" finding exactly when its true
\* line count exceeds 300, the finding records that true count, and the
\* candidacy policy is given it too, also for files of more than 1000 lines.
C10_TrueLineCount ==
    \A k \in 1..Len(scanned) :
        LET f == content[scanned[k]]
            long == LongFindings(scanned[k])
        IN  /\ Len(long) = IF f.total > 300 THEN 1 ELSE 0
            /\ \A n \in 1..Len(long) : long[n].lines = f.total
            /\ \A d \in 1..Len(decisions) :
                    decisions[d].file_path = scanned[k] =>
                        decisions[d].total_lines = f.total

\* a file of 1001 lines has been scanned and its finding records 1001 lines
C10_Witness ==
    \E k \in 1..Len(complex_files) :
        /\ complex_files[k].reason = "File too long (> 300 lines)"
        /\ complex_files[k].lines = 1001
        /\ content[complex_files[k].file].total = 1001
        /\ InSeq(scanned, complex_files[k].file)

\* the index in the walk of the directory a file is in
DirOf(path) ==
    CHOOSE k \in 1..Len(walk) :
        \E j \in 1..Len(walk[k].files) : PathJoin(RootOf(walk[k]), walk[k].files[j]) = path

\* the appends of one file are not separated by an append of another file
Contiguous(seq) ==
    \A i \in 1..Len(seq) : \A k \in (i + 1)..Len(seq) :
        seq[i].file = seq[k].file => \A j \in i..k : seq[j].file = seq[i].file

\* C11 as stated: in the order findings are appended to the report, all
\* findings of one file (detectors, missing-test check, AI call) come before
\* any finding of the next file: no file's findings interleave with another's.
C11_NoInterleaving == Contiguous(order)

\* the place of a kind of finding in the order _scan_file produces them
KindRank(kind) ==
    CASE kind = "Todo" -> 1
      [] kind = "ComplexFile" -> 2
      [] kind = "SecurityIssue" -> 3
      [] kind = "UndocumentedFunction" -> 4
      [] kind = "AiIssue" -> 5
      [] OTHER -> 6

\* C11 amended: the detector and AI findings of one file are appended, the
\* detectors' in call order and the AI issues last, before any detector or AI
\* finding of the next file; the MissingTest findings of a directory's files
\* are appended after all detector and AI findings of that directory's files
\* and before any finding of a file of a later directory.
C11_FileThenCheckPerDirectory ==
    LET found == SelectSeq(order, LAMBDA x : x.kind # "MissingTest")
    IN  /\ Contiguous(found)
        /\ \A i \in 1..Len(found) : \A k \in (i + 1)..Len(found) :
                found[i].file = found[k].file =>
                    KindRank(found[i].kind) <= KindRank(found[k].kind)
        /\ \A i \in 1..Len(order) : \A k \in (i + 1)..Len(order) :
                /\ order[i].kind = "MissingTest" /\ order[k].kind = "MissingTest" =>
                        /\ order[i].file # order[k].file
                        /\ DirOf(order[i].file) <= DirOf(order[k].file)
                /\ order[i].kind = "MissingTest" /\ order[k].kind # "MissingTest" =>
                        DirOf(order[i].file) < DirOf(order[k].file)
                /\ order[i].kind # "MissingTest" /\ order[k].kind = "MissingTest" =>
                        DirOf(order[i].file) <= DirOf(order[k].file)

\* the MissingTest finding of a file was appended after findings of another
\* file of its directory, which came after the file's own detector and AI
\* findings
C11_Witness ==
    \E i \in 1..Len(order) : \E j \in (i + 1)..Len(order) : \E k \in (j + 1)..Len(order) :
        /\ order[i].kind = "AiIssue"
        /\ order[j].file # order[i].file
        /\ DirOf(order[j].file) = DirOf(order[i].file)
        /\ order[k].file = order[i].file
        /\ order[k].kind = "MissingTest"

====
